---- MODULE Spec2Model ----
(***************************************************************************)
(* Model of imessage-exporter's sticker converter                          *)
(* (app/compatibility/converters/sticker.rs) and of its JSON exporter      *)
(* (exporters/json.rs).                                                    *)
(*                                                                         *)
(* The converter is one call of sticker_copy_convert at a time; every      *)
(* external process it spawns, and the final copy, is one step.  The       *)
(* external tools are the environment: which of them is broken is chosen   *)
(* when convert is invoked (plan) and stays fixed during that call, and a  *)
(* tool that is handed an input file that does not exist exits nonzero.    *)
(***************************************************************************)
EXTENDS Integers, Sequences, FiniteSets, TLC

\* ------------------------------------------------------------------ bounds
\* Largest number of frames in an animated sticker.
MaxFrames == 2
\* Number of convert invocations in one run.
MaxCalls == 3
\* Number of rows of the chat table; the raw chat IDs are 1..NumChats.
NumChats == 2
\* Number of rows the message source yields.
MaxRows == 3

\* ------------------------------------------------------- converter: types
\* The attachments, each named by the number of frames of its animation: a
\* one-frame sticker and the longest one.
Sources == {1, MaxFrames}

StillSubtypes == {"heic", "HEIC"}
AnimatedSubtypes == {"heics", "HEICS", "heic-sequence"}
\* Subtypes no arm of the match names: another format, another spelling.
OtherSubtypes == {"jpeg", "Heic"}
Subtypes == StillSubtypes \cup AnimatedSubtypes \cup OtherSubtypes

ImageConverters == {"sips", "magick"}

\* Extensions the destination stub can carry: its own one, or a target format.
Exts == {"orig", "png", "gif"}

\* The first number the video tool gives to the files of a %04d pattern.  The
\* tool is external: the merge loop counts from 0, the palette step reads 0001.
StartNumbers == {0, 1}

\* Frames per second of the assembled animation.
fps == 10

\* A file of the destination directory: what wrote it, from which source, and
\* for an animation the merged frames it was assembled from.
NoFile == [kind |-> "absent", src |-> 0, parts |-> {}]
Raw(s) == [kind |-> "raw", src |-> s, parts |-> {}]
StillImage(s) == [kind |-> "still", src |-> s, parts |-> {}]
Animation(s, merged) == [kind |-> "anim", src |-> s, parts |-> merged]
Partial(s) == [kind |-> "partial", src |-> s, parts |-> {}]

\* A file of the scratch directory /tmp/imessage, by its name: frame_i,
\* alpha_i, merged_i or palette.
TmpFile(k, i) == <<k, i>>
Has(t, k, i) == TmpFile(k, i) \in t
\* writing files that may exist already
Put(t, fs) == t \cup fs

\* Which tool is broken during one call: the first animated stage that fails
\* (none, or a filesystem call, or a spawn), and whether the still tool fails.
AnimStages == {"mkdir", "frames", "masks", "readdir", "palette", "assemble", "rm"}
NoFault == [stage |-> "none", item |-> 0]
AnimFaults ==
  {NoFault} \cup {[stage |-> s, item |-> 0] : s \in AnimStages}
            \cup {[stage |-> "merge", item |-> i] : i \in 0..(MaxFrames - 1)}
Plans == [anim : AnimFaults, still : BOOLEAN]

VARIABLES
  calls,        \* convert invocations so far
  pc,           \* where the current call of sticker_copy_convert stands
  from,         \* the source attachment
  mime,         \* its declared media subtype
  image,        \* image_converter, fixed for the run
  video,        \* video_converter is Some(..), fixed for the run
  pathsOk,      \* from and to are representable as UTF-8
  plan,         \* the tools' behaviour during this call
  toExt,        \* the extension of `to`
  ret,          \* the returned Option<MediaType>: "pending", "None", "png", "gif"
  dest,         \* the file at the path `to` names, the destination
  tmpExists,    \* /tmp/imessage exists
  tmp,          \* its files
  num_frames,   \* the merge loop's bound
  item,         \* the merge loop's index
  spawned,      \* the external processes spawned by this call, in order
  anim,         \* the animated attempt: "none", "running", "ok" or the failed stage
  std,          \* the still attempt: "none", "ok", "failed"
  prev,         \* the result of the previous call when this call repeats it
  startNumber   \* the video tool's first file number

cvars == <<calls, pc, from, mime, image, video, pathsOk, plan, toExt, ret, dest,
           tmpExists, tmp, num_frames, item, spawned, anim, std, prev, startNumber>>

\* -------------------------------------------------------- exporter: state
\* Option<i32>::None as a chat_id
None == 0
Chats == 1..NumChats
\* a chat_id that is in no table
UnknownChat == NumChats + 1
ChatIds == {None, UnknownChat} \cup Chats
\* handle IDs of the handle table and of the chat-to-handle table
Handles == {7, 9}
\* what the chat-to-handle table lists for one chat, in the order of its rows
Listings == {<<>>, <<7>>, <<7, 9>>, <<9, 7>>}
\* contact strings of the handle table
Contacts == {"a", "b"}
\* the keys of State.chatrooms: every row of the chat table
chatrooms == Chats
\* the path of orphaned.json; the path of a conversation's file is its number
OrphanPath == 0

VARIABLES
  epc,                    \* where the export run stands
  chat_to_handle,         \* chat ID -> the handles the database lists for it, in order
  chatroom_participants,  \* chat ID -> the set of its participants
  real_chatrooms,         \* chat ID -> canonical chat ID
  participants,           \* handle ID -> contact string
  real_participants,      \* handle ID -> canonical handle ID
  diagnostic,             \* what run_diagnostic computed and printed
  rows,                   \* the chat_id of every row read so far; a row's number is its message
  conversation_map,       \* iter_messages' map: chat_id -> the messages of that chat
  todo,                   \* the keys the writing loop has not visited yet
  files,                  \* JSONExporter.files: path -> writer
  orphaned,               \* JSONExporter.orphaned: the orphan writer, 0 before new()
  opens,                  \* the path of every File opened, in order; a writer is its position
  written,                \* path -> the lines written to it, each one array of messages
  denied,                 \* the paths File::open returned an error for
  result                  \* what the run returned: "running", "Ok" or the error

evars == <<epc, chat_to_handle, chatroom_participants, real_chatrooms, participants,
           real_participants, diagnostic, rows, conversation_map, todo,
           files, orphaned, opens, written, denied, result>>

vars == <<cvars, evars>>

\* Chat::dedupe: chats with the same participants get one canonical ID, the
\* smallest raw ID among them; a chat without participants is its own.
dedupe(parts) ==
  [c \in DOMAIN parts |->
     IF parts[c] = {} THEN c
     ELSE CHOOSE m \in DOMAIN parts :
            /\ parts[m] = parts[c]
            /\ \A o \in DOMAIN parts : parts[o] = parts[c] => m <= o]

\* Handle::dedupe: handles with the same contact get one canonical ID, the
\* smallest raw ID among them.
Handle_dedupe(contacts) ==
  [h \in DOMAIN contacts |->
     CHOOSE m \in DOMAIN contacts :
       /\ contacts[m] = contacts[h]
       /\ \A o \in DOMAIN contacts : contacts[o] = contacts[h] => m <= o]

\* runtime.rs:25: the participants of a chat are kept as a BTreeSet<i32>
BTreeSet(listed) == {listed[i] : i \in 1..Len(listed)}

\* runtime.rs:51-66: the application after State::new, with the chat-to-handle
\* table one of `joins_` and the handle table one of `contacts_`; where is
\* "New" before an export, "Diag" before the diagnostics, "Off" otherwise
EStart(where, joins_, contacts_) ==
  /\ epc = where
  /\ chat_to_handle \in joins_
  /\ chatroom_participants = [c \in DOMAIN chat_to_handle |-> BTreeSet(chat_to_handle[c])]
  /\ real_chatrooms = dedupe(chatroom_participants)
  /\ participants \in contacts_
  /\ real_participants = Handle_dedupe(participants)
  /\ diagnostic = [duplicated_handles |-> 0, duplicated_chats |-> 0, printed |-> <<>>]
  /\ rows = <<>>
  /\ conversation_map = <<>>
  /\ todo = {}
  /\ files = <<>>
  /\ orphaned = 0
  /\ opens = <<>>
  /\ written = <<>>
  /\ denied = {}
  /\ result = "running"

\* --------------------------------------------------- converter: functions

\* a wildcard arm that converts instead of passing through
output_type_wildcard_png(m) ==
  IF m \in {"heics", "HEICS", "heic-sequence"} THEN "gif" ELSE "png"

\* the upper-case arm of the still stickers is missing
output_type_no_upper(m) ==
  IF m \in {"heic"} THEN "png"
  ELSE IF m \in {"heics", "HEICS", "heic-sequence"} THEN "gif"
  ELSE "none"

\* sticker.rs:30-37
output_type(m) ==
  IF m \in {"heic", "HEIC"} THEN "png"
  ELSE IF m \in {"heics", "HEICS", "heic-sequence"} THEN "gif"
  ELSE "none"

\* the pipeline is tried for gif whether or not a video tool is configured
enters_animated_any(ot, vc) == ot = "gif"

\* sticker.rs:43-44: the animated pipeline is tried for gif with a video tool
enters_animated(ot, vc) == ot = "gif" /\ vc

\* the result of convert_heics is ignored: Converted whatever it returned
after_convert_heics_ignored(ok, ot) == [pc |-> "Done", ret |-> ot]

\* a failed convert_heics ends the call: None, no still attempt, no copy
after_convert_heics_giveup(ok, ot) ==
  IF ok THEN [pc |-> "Done", ret |-> ot]
  ELSE [pc |-> "Done", ret |-> "None"]

\* a failed convert_heics goes to the copy, past the still converter
after_convert_heics_skip(ok, ot) ==
  IF ok THEN [pc |-> "Done", ret |-> ot]
  ELSE [pc |-> "Fallback", ret |-> "pending"]

\* sticker.rs:45-47: what sticker_copy_convert does with convert_heics' result
after_convert_heics(ok, ot) ==
  IF ok THEN [pc |-> "Done", ret |-> ot]
  ELSE [pc |-> "TryStandard", ret |-> "pending"]

\* the test of convert_heic's result is inverted
after_convert_heic_inverted(ok, ot) ==
  IF ok THEN [pc |-> "Fallback", ret |-> "pending"]
  ELSE [pc |-> "Done", ret |-> ot]

\* a failed convert_heic returns None before the copy
after_convert_heic_nocopy(ok, ot) ==
  IF ok THEN [pc |-> "Done", ret |-> ot]
  ELSE [pc |-> "Done", ret |-> "None"]

\* sticker.rs:52-56: what sticker_copy_convert does with convert_heic's result
after_convert_heic(ok, ot) ==
  IF ok THEN [pc |-> "Done", ret |-> ot]
  ELSE [pc |-> "Fallback", ret |-> "pending"]

\* sticker.rs:160
count_frames(entries) == entries \div 2

\* common::ensure_paths: both paths as UTF-8 strings, or None
ensure_paths(ok) == ok

\* common::run_command: Some(()) exactly when the process exits with status 0;
\* a tool exits nonzero when it is broken or when an input file is missing.
run_command(broken, inputsExist) == ~broken /\ inputsExist

\* common::copy_raw: the source's bytes at the destination path
copy_raw(s) == Raw(s)

NoPrev == [valid |-> FALSE, ret |-> "None", ext |-> "orig", content |-> NoFile]

\* The literal index of "merged_0001.png", the frame the palette is made from.
PaletteFrame == 1

\* ----------------------------------------------------- converter: actions

params == <<calls, from, mime, image, video, pathsOk, plan, prev, startNumber>>

CStart(images, videos, numbers) ==
  /\ calls = 0
  /\ pc = "Idle"
  /\ from = 1
  /\ mime = "jpeg"
  /\ image \in images
  /\ video \in videos
  /\ pathsOk = TRUE
  /\ plan = [anim |-> NoFault, still |-> FALSE]
  /\ toExt = "orig"
  /\ ret = "pending"
  /\ dest = NoFile
  /\ tmpExists = FALSE
  /\ tmp = {}
  /\ num_frames = 0
  /\ item = 0
  /\ spawned = <<>>
  /\ anim = "none"
  /\ std = "none"
  /\ prev = NoPrev
  /\ startNumber \in numbers

\* sticker.rs:22-28: sticker_copy_convert is called for an attachment, with
\* the run's converters.  A fault is planned only for a tool this call can reach.
Invoke ==
  /\ pc \in {"Idle", "Done"}
  /\ calls < MaxCalls
  /\ \E f \in Sources, m \in Subtypes, ok \in BOOLEAN, pl \in Plans :
       /\ (~(enters_animated(output_type(m), video) /\ ok)) => pl.anim = NoFault
       /\ (output_type(m) = "none" \/ ~ok) => pl.still = FALSE
       /\ prev' = IF /\ pc = "Done"
                     /\ <<f, m, ok, pl>> = <<from, mime, pathsOk, plan>>
                  THEN [valid |-> TRUE, ret |-> ret, ext |-> toExt, content |-> dest]
                  ELSE NoPrev
       \* the same attachment has the same destination; another one a new one
       /\ dest' = IF <<f, m>> = <<from, mime>> THEN dest ELSE NoFile
       /\ from' = f
       /\ mime' = m
       /\ pathsOk' = ok
       /\ plan' = pl
  /\ calls' = calls + 1
  /\ pc' = "Detect"
  /\ toExt' = "orig"
  /\ ret' = "pending"
  /\ num_frames' = 0
  /\ item' = 0
  /\ spawned' = <<>>
  /\ anim' = "none"
  /\ std' = "none"
  /\ UNCHANGED <<image, video, tmpExists, tmp, startNumber>>
  /\ UNCHANGED evars

\* sticker.rs:30-49: the output type, the new extension, the way in
Detect ==
  /\ pc = "Detect"
  /\ LET ot == output_type(mime) IN
       IF ot = "none"
       THEN /\ pc' = "Fallback"
            /\ UNCHANGED <<toExt, anim>>
       ELSE /\ toExt' = ot
            /\ IF enters_animated(ot, video)
               THEN pc' = "Validate" /\ anim' = "running"
               ELSE pc' = "TryStandard" /\ UNCHANGED anim
  /\ UNCHANGED <<ret, dest, tmpExists, tmp, num_frames, item, spawned, std>>
  /\ UNCHANGED params
  /\ UNCHANGED evars

\* convert_heics returned None at `stage`
AnimFails(stage) ==
  /\ anim' = stage
  /\ pc' = after_convert_heics(FALSE, output_type(mime)).pc
  /\ ret' = after_convert_heics(FALSE, output_type(mime)).ret

Broken(stage) == plan.anim.stage = stage

\* the paths are not checked before the scratch directory is made
Validate_unchecked ==
  /\ pc = "Validate"
  /\ pc' = "Mkdir"
  /\ UNCHANGED <<ret, anim>>
  /\ UNCHANGED <<toExt, dest, tmpExists, tmp, num_frames, item, spawned, std>>
  /\ UNCHANGED params
  /\ UNCHANGED evars

\* sticker.rs:106
Validate ==
  /\ pc = "Validate"
  /\ IF ensure_paths(pathsOk)
     THEN pc' = "Mkdir" /\ UNCHANGED <<ret, anim>>
     ELSE AnimFails("paths")
  /\ UNCHANGED <<toExt, dest, tmpExists, tmp, num_frames, item, spawned, std>>
  /\ UNCHANGED params
  /\ UNCHANGED evars

\* sticker.rs:112-120
Mkdir ==
  /\ pc = "Mkdir"
  /\ IF tmpExists
     THEN pc' = "Frames" /\ UNCHANGED <<ret, anim, tmpExists>>
     ELSE IF Broken("mkdir")
          THEN AnimFails("mkdir") /\ UNCHANGED tmpExists
          ELSE pc' = "Frames" /\ tmpExists' = TRUE /\ UNCHANGED <<ret, anim>>
  /\ UNCHANGED <<toExt, dest, tmp, num_frames, item, spawned, std>>
  /\ UNCHANGED params
  /\ UNCHANGED evars

\* sticker.rs:132-142: demux stream 0:2 into frame_%04d.png (-y overwrites)
Frames ==
  /\ pc = "Frames"
  /\ spawned' = Append(spawned, "frames")
  /\ IF run_command(Broken("frames"), TRUE)
     THEN /\ tmp' = Put(tmp, {TmpFile("frame", startNumber + k) : k \in 0..(from - 1)})
          /\ pc' = "Masks"
          /\ UNCHANGED <<ret, anim>>
     ELSE AnimFails("frames") /\ UNCHANGED tmp
  /\ UNCHANGED <<toExt, dest, tmpExists, num_frames, item, std>>
  /\ UNCHANGED params
  /\ UNCHANGED evars

\* sticker.rs:146-156: demux stream 0:3 into alpha_%04d.png (-y overwrites)
Masks ==
  /\ pc = "Masks"
  /\ spawned' = Append(spawned, "masks")
  /\ IF run_command(Broken("masks"), TRUE)
     THEN /\ tmp' = Put(tmp, {TmpFile("alpha", startNumber + k) : k \in 0..(from - 1)})
          /\ pc' = "ReadDir"
          /\ UNCHANGED <<ret, anim>>
     ELSE AnimFails("masks") /\ UNCHANGED tmp
  /\ UNCHANGED <<toExt, dest, tmpExists, num_frames, item, std>>
  /\ UNCHANGED params
  /\ UNCHANGED evars

\* sticker.rs:159-160: half the number of entries of the scratch directory
ReadDir ==
  /\ pc = "ReadDir"
  /\ IF Broken("readdir")
     THEN AnimFails("readdir") /\ UNCHANGED <<num_frames, item>>
     ELSE /\ num_frames' = count_frames(Cardinality(tmp))
          /\ item' = 0
          /\ pc' = IF num_frames' = 0 THEN "Palette" ELSE "Merge"
          /\ UNCHANGED <<ret, anim>>
  /\ UNCHANGED <<toExt, dest, tmpExists, tmp, spawned, std>>
  /\ UNCHANGED params
  /\ UNCHANGED evars

\* sticker.rs:161-174: one iteration of (0..num_frames).try_for_each
Merge ==
  /\ pc = "Merge"
  /\ item < num_frames
  /\ spawned' = Append(spawned, "merge")
  /\ IF run_command(plan.anim = [stage |-> "merge", item |-> item],
                    Has(tmp, "frame", item) /\ Has(tmp, "alpha", item))
     THEN /\ tmp' = Put(tmp, {TmpFile("merged", item)})
          /\ item' = item + 1
          /\ pc' = IF item + 1 < num_frames THEN "Merge" ELSE "Palette"
          /\ UNCHANGED <<ret, anim>>
     ELSE AnimFails("merge") /\ UNCHANGED <<tmp, item>>
  /\ UNCHANGED <<toExt, dest, tmpExists, num_frames, std>>
  /\ UNCHANGED params
  /\ UNCHANGED evars

\* sticker.rs:178-187: the palette of merged_0001.png
Palette ==
  /\ pc = "Palette"
  /\ spawned' = Append(spawned, "palette")
  /\ IF run_command(Broken("palette"), Has(tmp, "merged", PaletteFrame))
     THEN /\ tmp' = Put(tmp, {TmpFile("palette", 0)})
          /\ pc' = "Assemble"
          /\ UNCHANGED <<ret, anim>>
     ELSE AnimFails("palette") /\ UNCHANGED tmp
  /\ UNCHANGED <<toExt, dest, tmpExists, num_frames, item, std>>
  /\ UNCHANGED params
  /\ UNCHANGED evars

\* the indices of the files merged_%04d.png names
MergedFrames(t) == {x[2] : x \in {y \in t : y[1] = "merged"}}

\* sticker.rs:190-203: the gif from merged_%04d.png and palette.png, at to_path.
\* A failed run leaves the destination as it was or partly written.
Assemble ==
  /\ pc = "Assemble"
  /\ spawned' = Append(spawned, "assemble")
  /\ IF run_command(Broken("assemble"),
                    MergedFrames(tmp) # {} /\ Has(tmp, "palette", 0))
     THEN /\ dest' = Animation(from, MergedFrames(tmp))
          /\ pc' = "Remove"
          /\ UNCHANGED <<ret, anim>>
     ELSE /\ AnimFails("assemble")
          /\ dest' \in {dest, Partial(from)}
  /\ UNCHANGED <<toExt, tmpExists, tmp, num_frames, item, std>>
  /\ UNCHANGED params
  /\ UNCHANGED evars

\* sticker.rs:206-208: remove_dir_all(tmp).ok()?; Some(())
Remove ==
  /\ pc = "Remove"
  /\ IF Broken("rm")
     THEN AnimFails("rm") /\ UNCHANGED <<tmpExists, tmp>>
     ELSE /\ tmpExists' = FALSE
          /\ tmp' = {}
          /\ anim' = "ok"
          /\ pc' = after_convert_heics(TRUE, output_type(mime)).pc
          /\ ret' = after_convert_heics(TRUE, output_type(mime)).ret
  /\ UNCHANGED <<toExt, dest, num_frames, item, spawned, std>>
  /\ UNCHANGED params
  /\ UNCHANGED evars

\* sticker.rs:52 and 78-103: convert_heic, one run of the still-image tool.
\* A failed run leaves the destination as it was or partly written.
TryStandard ==
  /\ pc = "TryStandard"
  /\ IF ~ensure_paths(pathsOk)
     THEN /\ std' = "failed"
          /\ UNCHANGED <<spawned, dest>>
     ELSE /\ spawned' = Append(spawned, image)
          /\ IF run_command(plan.still, TRUE)
             THEN /\ std' = "ok"
                  /\ dest' = StillImage(from)
             ELSE /\ std' = "failed"
                  /\ dest' \in {dest, Partial(from)}
  /\ pc' = after_convert_heic(std' = "ok", output_type(mime)).pc
  /\ ret' = after_convert_heic(std' = "ok", output_type(mime)).ret
  /\ UNCHANGED <<toExt, tmpExists, tmp, num_frames, item, anim>>
  /\ UNCHANGED params
  /\ UNCHANGED evars

\* sticker.rs:59-60: copy_raw(from, to); None
Fallback ==
  /\ pc = "Fallback"
  /\ dest' = copy_raw(from)
  /\ ret' = "None"
  /\ pc' = "Done"
  /\ UNCHANGED <<toExt, tmpExists, tmp, num_frames, item, spawned, anim, std>>
  /\ UNCHANGED params
  /\ UNCHANGED evars

Step ==
  \/ Detect
  \/ Validate
  \/ Mkdir
  \/ Frames
  \/ Masks
  \/ ReadDir
  \/ Merge
  \/ Palette
  \/ Assemble
  \/ Remove
  \/ TryStandard
  \/ Fallback

Next == Invoke \/ Step

\* a run that converts attachments, with any converters
Init ==
  /\ CStart(ImageConverters, BOOLEAN, StartNumbers)
  /\ EStart("Off", {[c \in Chats |-> <<>>]}, {[h \in Handles |-> "a"]})

Spec == Init /\ [][Next]_vars

\* Every started call is run to its end: the calls block, nothing else runs.
FairSpec == Spec /\ WF_vars(Step)

\* ------------------------------------------------------ converter: claims

Returned == pc = "Done"
IsStill == mime \in StillSubtypes
IsAnimated == mime \in AnimatedSubtypes
\* the animated attempt of this call was entered and returned None
AnimatedFailed == anim \notin {"none", "running", "ok"}
\* the processes of an animated attempt in which every stage succeeded
FullPipeline ==
  <<"frames", "masks">> \o [i \in 1..num_frames |-> "merge"] \o <<"palette", "assemble">>

\* C1: for a subtype outside the still and the animated set, convert spawns
\* no process, leaves the extension of the destination as it is, and returns
\* None with the source's bytes at the destination.
C1_OtherPassthrough ==
  (pc # "Idle" /\ ~IsStill /\ ~IsAnimated) =>
    /\ spawned = <<>>
    /\ toExt = "orig"
    /\ Returned => (ret = "None" /\ dest = Raw(from))

C1_Witness ==
  Returned /\ mime = "Heic" /\ calls > 1 /\ tmpExists /\ dest = Raw(from) /\ ret = "None"

\* C2 as stated: for a still sticker, convert returns a png destination and
\* the outcome Converted.
C2_StillAlwaysConverted ==
  (Returned /\ IsStill) => (toExt = "png" /\ ret = "png")

\* C2 amended: for a still sticker the destination's extension is png; the
\* outcome is Converted when the still-image tool succeeds and PassthroughCopy
\* when it fails.
C2_StillConvertedIfToolOk ==
  (Returned /\ IsStill) =>
    /\ toExt = "png"
    /\ (pathsOk /\ ~plan.still) => (ret = "png" /\ dest = StillImage(from))
    /\ (~pathsOk \/ plan.still) => ret = "None"

C2_Witness ==
  Returned /\ mime = "HEIC" /\ toExt = "png" /\ ret = "png" /\ dest = StillImage(from)

\* C3: when the still-image attempt fails, convert ends with the source's
\* bytes at the destination and the outcome PassthroughCopy, whatever the
\* animated attempt did before.
C3_StandardFailureCopies ==
  (Returned /\ std = "failed") => (ret = "None" /\ dest = Raw(from))

C3_Witness ==
  Returned /\ std = "failed" /\ anim = "rm" /\ ret = "None" /\ dest = Raw(from)

\* C4 as stated: an animated sticker is Converted only if every stage of the
\* animated pipeline succeeded.
C4_ConvertedOnlyByPipeline ==
  (Returned /\ IsAnimated /\ ret = "gif") => (anim = "ok" /\ spawned = FullPipeline)

\* C4 amended: an animated sticker is Converted only if every stage of the
\* animated pipeline succeeded or the still-image attempt succeeded.
C4_ConvertedByPipelineOrStandard ==
  (Returned /\ IsAnimated /\ ret = "gif") =>
    \/ anim = "ok" /\ spawned = FullPipeline /\ dest.kind = "anim"
    \/ std = "ok" /\ pathsOk /\ ~plan.still /\ dest = StillImage(from)

C4_Witness ==
  Returned /\ IsAnimated /\ ret = "gif" /\ anim = "ok" /\ num_frames = 2

\* C5: when convert returns after an animated attempt that failed, the file
\* at the destination is the still-image tool's output or a copy of the
\* source, never a partial or leftover animation.
C5_NoAnimatedLeftover ==
  (Returned /\ AnimatedFailed) => dest \in {StillImage(from), Raw(from)}

C5_Witness ==
  Returned /\ anim = "rm" /\ std = "ok" /\ dest = StillImage(from)

\* C6: once an animated attempt has concluded, with success or with a failure
\* at any stage, the scratch directory is absent when convert returns.
C6_ScratchAbsentAtReturn ==
  (Returned /\ anim # "none") => ~tmpExists

\* C7: every call of convert ends, with the outcome Converted or
\* PassthroughCopy and a file at the destination.
C7_AlwaysReturnsAFile ==
  /\ [](Returned => (ret \in {"None", "png", "gif"} /\ dest.kind \in {"raw", "still", "anim"}))
  /\ (pc = "Detect" ~> Returned)

C7_Witness ==
  Returned /\ calls = MaxCalls /\ anim = "merge" /\ std = "failed" /\ dest = Raw(from)

\* C8: a call that repeats the previous one (same attachment, same
\* destination, same converters, same behaviour of the tools) returns the
\* same outcome and leaves the same file at the same path.
C8_RepeatedCallSameResult ==
  (Returned /\ prev.valid) =>
    (ret = prev.ret /\ toExt = prev.ext /\ dest = prev.content)

\* C14: when convert ends in the fallback copy after a failed conversion of a
\* still or animated sticker, the destination path has the extension the
\* stub came with, not the png or gif of the target format.
C14_FallbackKeepsExtension ==
  (Returned /\ std = "failed" /\ dest = Raw(from)) => toExt = "orig"

\* the processes of the animated attempt among those spawned by this call
AnimSpawns == SelectSeq(spawned, LAMBDA x : x \notin ImageConverters)
IsPrefix(s, t) == Len(s) <= Len(t) /\ SubSeq(t, 1, Len(s)) = s
\* the files the demux of this call's source writes for stream k
Demuxed(k) == {TmpFile(k, startNumber + i) : i \in 0..(from - 1)}

\* C15: in one animated attempt the processes are spawned in the order frame
\* demux, mask demux, one merge per index, palette, assembly, and the scratch
\* directory is removed last; a stage is started only when the one before it
\* has succeeded; after the first failure no animated stage is spawned any
\* more and the next process of the call is the one run of the still tool.
C15_StagesInOrder ==
  (pc # "Idle") =>
    \* the order, and the still tool at most once and after every stage
    /\ IsPrefix(AnimSpawns, FullPipeline)
    /\ spawned \in {AnimSpawns, Append(AnimSpawns, image)}
    /\ anim = "running" => spawned = AnimSpawns
    \* a stage is started only after the output of the one before it exists
    /\ (pc \in {"Masks", "ReadDir", "Merge", "Palette", "Assemble"}) =>
         Demuxed("frame") \subseteq tmp
    /\ (pc \in {"ReadDir", "Merge", "Palette", "Assemble"}) =>
         Demuxed("alpha") \subseteq tmp
    /\ (pc \in {"Palette", "Assemble"}) =>
         \A i \in 0..(num_frames - 1) : Has(tmp, "merged", i)
    /\ (pc = "Assemble") => Has(tmp, "palette", 0)
    /\ (pc = "Remove" \/ anim \in {"ok", "rm"}) =>
         AnimSpawns = FullPipeline
    \* the failed stage is the last animated process
    /\ (anim \in {"paths", "mkdir"}) => AnimSpawns = <<>>
    /\ (anim = "readdir") => AnimSpawns = <<"frames", "masks">>
    /\ (anim \in {"frames", "masks", "merge", "palette", "assemble"}) =>
         (AnimSpawns # <<>> /\ AnimSpawns[Len(AnimSpawns)] = anim)
    \* and the still tool runs next, once
    /\ (AnimatedFailed /\ pc = "TryStandard") => spawned = AnimSpawns
    /\ (AnimatedFailed /\ pathsOk /\ pc \in {"Fallback", "Done"}) =>
         spawned = Append(AnimSpawns, image)

C15_Witness ==
  /\ Returned
  /\ anim = "merge"
  /\ item = 1
  /\ spawned = <<"frames", "masks", "merge", "merge", image>>

\* the indices the merge loop of this attempt has merged
MergedByAttempt == 0..(item - 1)
\* the indices of the frames the demux of this attempt wrote
DemuxedFrames == {x[2] : x \in Demuxed("frame")}

\* C16: when the merge stage of an animated attempt has succeeded, the
\* indices it merged are the indices of the frames (and masks) this attempt
\* demuxed, whatever an earlier attempt left in the scratch directory.
C16_MergesTheDemuxedFrames ==
  (pc = "Palette" /\ anim = "running") => MergedByAttempt = DemuxedFrames

\* C17: the frame the palette stage reads is the merged frame with the lowest
\* index the merge stage of this attempt wrote, and it exists whenever the
\* merge stage succeeded with at least one frame.
C17_PaletteFromFirstMerged ==
  (pc = "Palette" /\ anim = "running" /\ MergedByAttempt # {}) =>
    /\ PaletteFrame \in MergedByAttempt
    /\ \A i \in MergedByAttempt : PaletteFrame <= i
    /\ Has(tmp, "merged", PaletteFrame)

\* C18: in a call whose source or destination path is not representable no
\* process is spawned and the scratch directory is neither created nor
\* written: the animated attempt ends at the check of the paths, the still
\* attempt spawns nothing, and the call returns PassthroughCopy with the
\* source's bytes at the destination.
C18_BadPathsSpawnNothing ==
  /\ []((pc # "Idle" /\ ~pathsOk) =>
         /\ spawned = <<>>
         /\ pc \in {"Detect", "Validate", "TryStandard", "Fallback", "Done"}
         /\ anim \in {"none", "running", "paths"}
         /\ std \in {"none", "failed"}
         /\ Returned => (ret = "None" /\ dest = Raw(from)))
  /\ [][~pathsOk' => (tmpExists' = tmpExists /\ tmp' = tmp)]_vars

C18_Witness ==
  /\ Returned
  /\ ~pathsOk
  /\ IsAnimated /\ video
  /\ anim = "paths" /\ std = "failed"
  /\ spawned = <<>>
  /\ ~tmpExists
  /\ ret = "None" /\ dest = Raw(from)

\* a call that must not enter the animated pipeline: a still sticker, or an
\* animated one without a video tool
NoPipeline(m, vc) == m \in StillSubtypes \/ (m \in AnimatedSubtypes /\ ~vc)

\* C19: the animated pipeline is entered only when the target format is gif
\* and a video tool is configured; for a still sticker and for an animated
\* sticker without a video tool no stage of the pipeline is spawned, the
\* scratch directory is not created, and the call goes from the detection
\* straight to the still attempt.
C19_PipelineOnlyForGifWithTool ==
  /\ []((pc # "Idle" /\ anim # "none") => (toExt = "gif" /\ video))
  /\ []((pc # "Idle" /\ NoPipeline(mime, video)) =>
         /\ anim = "none"
         /\ AnimSpawns = <<>>
         /\ pc \in {"Detect", "TryStandard", "Fallback", "Done"})
  /\ [][NoPipeline(mime', video') => (tmpExists' = tmpExists /\ tmp' = tmp)]_vars
  /\ [][(pc = "Detect" /\ NoPipeline(mime, video)) => pc' = "TryStandard"]_vars

C19_Witness ==
  /\ Returned
  /\ IsAnimated /\ ~video
  /\ anim = "none" /\ std = "ok"
  /\ spawned = <<image>>
  /\ ~tmpExists
  /\ ret = "gif"

\* ---------------------------------------------------- exporter: functions

\* Config::conversation: the canonical ID of the message's chat, or None
conversation(chat_id) ==
  IF chat_id \in DOMAIN real_chatrooms THEN real_chatrooms[chat_id] ELSE None

\* Config::filename and json.rs:147: the path of a conversation's file
filename(canonical) == canonical

\* the check is missing: every call opens the file again
needs_open_always(fs, path) == TRUE

\* the test is inverted: a file is opened when files has a writer for it
needs_open_inverted(fs, path) == path \in DOMAIN fs

\* json.rs:148
needs_open(fs, path) == path \notin DOMAIN fs

\* the entry is replaced by the new message instead of extended
push_overwrite(map, key, msg) ==
  IF key \in DOMAIN map
  THEN [map EXCEPT ![key] = <<msg>>]
  ELSE map @@ (key :> <<msg>>)

\* json.rs:129: conversation_map.entry(chat_id).or_default().push(message)
push(map, key, msg) ==
  IF key \in DOMAIN map
  THEN [map EXCEPT ![key] = Append(@, msg)]
  ELSE map @@ (key :> <<msg>>)

\* writeln!(writer, ..): one more line in the writer's file
writeln(w, path, line) ==
  IF path \in DOMAIN w
  THEN [w EXCEPT ![path] = Append(@, line)]
  ELSE w @@ (path :> <<line>>)

\* the error of File::open is dropped and the run goes on
map_err_ignored(created) == "running"

\* json.rs:94-98 and 149-153: File::open(..).map_err(CreateError)?, what the
\* function returns at once when the file could not be created
map_err(created) == IF created THEN "running" ELSE "CreateError"

\* ------------------------------------------------------ exporter: actions

\* a run that exports messages, for any chat-to-handle table; runtime.rs:59
\* computes real_chatrooms from it
EInit ==
  /\ CStart({"sips"}, {FALSE}, {1})
  /\ EStart("New", [Chats -> Listings], {[h \in Handles |-> "a"]})

tables == <<chat_to_handle, chatroom_participants, real_chatrooms, participants,
            real_participants, diagnostic>>

\* json.rs:90-105: JSONExporter::new opens orphaned.json, or fails
New ==
  /\ epc = "New"
  /\ \E created \in BOOLEAN :
       /\ denied' = IF created THEN denied ELSE denied \cup {OrphanPath}
       /\ IF map_err(created) = "running"
          THEN /\ opens' = Append(opens, OrphanPath)
               /\ orphaned' = Len(opens) + 1
               /\ epc' = "Read"
               /\ UNCHANGED result
          ELSE /\ epc' = "Failed"
               /\ result' = map_err(created)
               /\ UNCHANGED <<opens, orphaned>>
  /\ UNCHANGED <<rows, conversation_map, todo, files, written>>
  /\ UNCHANGED tables
  /\ UNCHANGED cvars

\* json.rs:122-132: one row of the message source is read and filed under
\* its chat_id, or cannot be decoded
ReadRow ==
  /\ epc = "Read"
  /\ Len(rows) < MaxRows
  /\ \E chat_id \in ChatIds, ok \in BOOLEAN :
       IF ok
       THEN /\ rows' = Append(rows, chat_id)
            /\ conversation_map' = push(conversation_map, chat_id, Len(rows) + 1)
            /\ UNCHANGED <<epc, result>>
       ELSE /\ epc' = "Failed"
            /\ result' = "DatabaseError"
            /\ UNCHANGED <<rows, conversation_map>>
  /\ UNCHANGED <<todo, files, orphaned, opens, written, denied>>
  /\ UNCHANGED tables
  /\ UNCHANGED cvars

\* json.rs:133-135: the source is exhausted; the map is iterated next
EndOfRows ==
  /\ epc = "Read"
  /\ epc' = "Write"
  /\ todo' = DOMAIN conversation_map
  /\ UNCHANGED <<rows, conversation_map, files, orphaned, opens, written, denied, result>>
  /\ UNCHANGED tables
  /\ UNCHANGED cvars

\* json.rs:135-138 and 143-161: one entry of the map, in the HashMap's order:
\* get_or_create_file, then one line with the entry's messages
WriteEntry ==
  /\ epc = "Write"
  /\ \E chat_id \in todo, created \in BOOLEAN, wrote \in BOOLEAN :
       LET canonical == conversation(chat_id)
           path == IF canonical = None THEN OrphanPath ELSE filename(canonical)
           open == canonical # None /\ needs_open(files, path)
           opened == IF open THEN map_err(created) ELSE "running"
       IN
       /\ denied' = IF open /\ ~created THEN denied \cup {path} ELSE denied
       /\ IF opened # "running"
          THEN /\ epc' = "Failed"
               /\ result' = opened
               /\ UNCHANGED <<todo, files, opens, written>>
          ELSE /\ IF open
                  THEN /\ opens' = Append(opens, path)
                       /\ files' = (path :> (Len(opens) + 1)) @@ files
                  ELSE UNCHANGED <<opens, files>>
               /\ IF wrote
                  THEN /\ written' = writeln(written, path, conversation_map[chat_id])
                       /\ todo' = todo \ {chat_id}
                       /\ UNCHANGED <<epc, result>>
                  ELSE /\ epc' = "Failed"
                       /\ result' = "DiskError"
                       /\ UNCHANGED <<written, todo>>
  /\ UNCHANGED <<rows, conversation_map, orphaned>>
  /\ UNCHANGED tables
  /\ UNCHANGED cvars

\* json.rs:140: Ok(())
Finish ==
  /\ epc = "Write"
  /\ todo = {}
  /\ epc' = "Finished"
  /\ result' = "Ok"
  /\ UNCHANGED <<rows, conversation_map, todo, files, orphaned, opens, written, denied>>
  /\ UNCHANGED tables
  /\ UNCHANGED cvars

ENext == New \/ ReadRow \/ EndOfRows \/ WriteEntry \/ Finish

ExportSpec == EInit /\ [][ENext]_vars

\* ---------------------------------------------------------- diagnostics

\* the distinct canonical IDs are reported, not the difference
duplicated_uniques(len, real) == Cardinality({real[k] : k \in DOMAIN real})

\* the keys are counted instead of the distinct canonical IDs
duplicated_by_keys(len, real) == len - Cardinality(DOMAIN real)

\* runtime.rs:144-145 and 150-151: the number of records minus the number of
\* distinct values of the raw-to-canonical map
duplicated(len, real) == len - Cardinality({real[k] : k \in DOMAIN real})

\* runtime.rs:146-148 and 152-154: a count is printed only above 1
println(label, n) == IF n > 1 THEN <<[line |-> label, count |-> n]>> ELSE <<>>

\* runtime.rs:137-155: State::run_diagnostic.  The diagnostics of the tables
\* (139-141) read the database and print; they leave State alone.
run_diagnostic ==
  /\ epc = "Diag"
  /\ LET duplicated_handles == duplicated(Cardinality(DOMAIN participants), real_participants)
         duplicated_chats == duplicated(Cardinality(chatrooms), real_chatrooms)
     IN diagnostic' = [duplicated_handles |-> duplicated_handles,
                       duplicated_chats |-> duplicated_chats,
                       printed |-> println("Duplicated contacts", duplicated_handles)
                                   \o println("Duplicated chats", duplicated_chats)]
  /\ epc' = "Diagnosed"
  /\ UNCHANGED <<chat_to_handle, chatroom_participants, real_chatrooms, participants,
                 real_participants>>
  /\ UNCHANGED <<rows, conversation_map, todo, files, orphaned, opens, written, denied, result>>
  /\ UNCHANGED cvars

\* a run of the diagnostics, for any chat-to-handle table and handle table
DInit ==
  /\ CStart({"sips"}, {FALSE}, {1})
  /\ EStart("Diag", [Chats -> Listings], [Handles -> Contacts])

DNext == run_diagnostic

DiagSpec == DInit /\ [][DNext]_vars

\* the table without the row of chat b
Without(parts, b) == [c \in DOMAIN parts \ {b} |-> parts[c]]
\* the duplicate count of a chat-to-handle table
DuplicatesOf(parts) == duplicated(Cardinality(DOMAIN parts), dedupe(parts))

CanonicalChats == {real_chatrooms[c] : c \in Chats}
CanonicalHandles == {real_participants[h] : h \in Handles}

RECURSIVE RowsOf(_, _)
RowsOf(c, n) ==
  IF n = 0 THEN <<>>
  ELSE IF conversation(rows[n]) = c
       THEN Append(RowsOf(c, n - 1), n)
       ELSE RowsOf(c, n - 1)

\* the messages of a file, in the order they stand in it
RECURSIVE Flatten(_)
Flatten(lines) ==
  IF lines = <<>> THEN <<>> ELSE Head(lines) \o Flatten(Tail(lines))

FileOf(path) == IF path \in DOMAIN written THEN Flatten(written[path]) ELSE <<>>

\* the canonical conversations that have a record
Conversations == {conversation(rows[n]) : n \in 1..Len(rows)} \ {None}

\* C9: when the run has ended, the file of every canonical conversation holds
\* the conversation's records in the order they were read.
C9_FileKeepsReadOrder ==
  (epc = "Finished") =>
    \A c \in Conversations : FileOf(filename(c)) = RowsOf(c, Len(rows))

\* C10: no path is ever opened twice; when the run has ended, the open files
\* are one per canonical conversation that has a record, plus the orphan file.
C10_OneWriterPerConversation ==
  /\ \A i, j \in 1..Len(opens) : opens[i] = opens[j] => i = j
  /\ (epc = "Finished") =>
       /\ DOMAIN files = {filename(c) : c \in Conversations}
       /\ \A q \in DOMAIN files : opens[files[q]] = q
       /\ orphaned = 1 /\ opens[orphaned] = OrphanPath
       /\ Len(opens) = Cardinality(Conversations) + 1

C10_Witness ==
  /\ epc = "Finished"
  /\ Cardinality(Conversations) = 1
  /\ \E a, b \in Chats : a # b /\ real_chatrooms[a] = real_chatrooms[b]
                          /\ a \in DOMAIN conversation_map /\ b \in DOMAIN conversation_map
  /\ None \in DOMAIN conversation_map
  /\ Len(opens) = 2

\* the path a record of chat_id is routed to: its canonical conversation's
\* file, or the orphan file
RouteOf(chat_id) ==
  IF conversation(chat_id) = None THEN OrphanPath ELSE filename(conversation(chat_id))

\* how often message n stands in the file at path
Occurrences(path, n) ==
  Cardinality({i \in 1..Len(FileOf(path)) : FileOf(path)[i] = n})

\* C11: in a run that completes without error, every record read is written
\* exactly once to exactly one output: its canonical conversation's file when
\* its conversation resolves, the orphan file otherwise.
C11_EveryRecordWrittenOnce ==
  (epc = "Finished") =>
    /\ result = "Ok"
    /\ \A n \in 1..Len(rows) :
         /\ Occurrences(RouteOf(rows[n]), n) = 1
         /\ \A q \in DOMAIN written : q # RouteOf(rows[n]) => Occurrences(q, n) = 0

C11_Witness ==
  /\ epc = "Finished"
  /\ Len(rows) = MaxRows
  /\ \E a, b \in 1..Len(rows) : a # b /\ rows[a] = rows[b] /\ conversation(rows[a]) # None
  /\ \E n \in 1..Len(rows) : rows[n] = UnknownChat /\ Occurrences(OrphanPath, n) = 1

\* C12: when the creation of the orphan file or of a conversation's file
\* fails, the run stops there with a creation error: from the failed creation
\* on no file is opened (no retry) and no record is written, and the run
\* returns Ok only when no creation failed and every record is written.
C12_CreationFailureIsFatal ==
  /\ [](denied # {} => (epc = "Failed" /\ result = "CreateError"))
  /\ [](result = "Ok" =>
         /\ denied = {}
         /\ todo = {}
         /\ \A n \in 1..Len(rows) : Occurrences(RouteOf(rows[n]), n) = 1)
  /\ [][denied' # {} => (opens' = opens /\ files' = files /\ written' = written)]_vars

\* a conversation's file could not be created after another file was written
C12_Witness ==
  /\ epc = "Failed"
  /\ result = "CreateError"
  /\ denied # {} /\ OrphanPath \notin denied
  /\ written # <<>>
  /\ Cardinality(todo) = 2

\* the paths of the conversation files
ConversationPaths == {filename(c) : c \in Chats}

\* C20: a conversation's writer is created in the step that routes the first
\* records of that conversation to it, not before and not for a conversation
\* without records; from then on it stays in files: files never loses a path,
\* never maps a path to another writer, and no path is opened a second time.
C20_WritersCreatedOnFirstUseAndKept ==
  /\ [](\A q \in DOMAIN files :
          \E n \in 1..Len(rows) : conversation(rows[n]) # None /\ RouteOf(rows[n]) = q)
  /\ [](\A q \in DOMAIN written : q # OrphanPath => q \in DOMAIN files)
  /\ [][\A q \in DOMAIN files : q \in DOMAIN files' /\ files'[q] = files[q]]_vars
  /\ [][files' # files =>
          \E q \in ConversationPaths :
            /\ q \notin DOMAIN files
            /\ q \notin DOMAIN written
            /\ DOMAIN files' = DOMAIN files \cup {q}
            /\ opens' = Append(opens, q)
            /\ \A i \in 1..Len(opens) : opens[i] # q
            /\ written' # written => (q \in DOMAIN written' /\ Len(written'[q]) = 1)]_vars
  /\ [][opens' # opens => (files' # files \/ epc = "New")]_vars

\* two raw chats of one conversation were written to the one writer
C20_Witness ==
  /\ epc = "Finished"
  /\ \E q \in DOMAIN files : Len(written[q]) = 2
  /\ Len(opens) = 2

====
